---- MODULE Spec2Model ----
(***************************************************************************)
(* A model of MongooseDbAdapter (src/src/index.js): the adapter's fields,  *)
(* init / connect / disconnect with the futures they return, and the pure  *)
(* helpers entityToObject, beforeSaveTransformID, afterRetrieveTransformID,*)
(* stringToObjectID and objectIDToString.                                  *)
(*                                                                         *)
(* JavaScript's undefined is the string "undefined"; a value is truthy     *)
(* unless it is undefined or the empty string.                             *)
(***************************************************************************)
EXTENDS Integers, Sequences, FiniteSets, TLC

VARIABLES
    uri, opts,              \* this.uri, this.opts (constructor)
    mongoosePromise,        \* mongoose.Promise
    broker, service,        \* this.broker, this.service
    model, schema, modelName, \* this.model, this.schema, this.modelName
    db,                     \* this.db
    op,                     \* the call or callback that ran last, with its outcome
    connects,               \* one record per adapter.connect() call
    mongooseConnectCalls,   \* the calls made to mongoose.connect, in order
    mongooseModelCalls,     \* the number of calls made to mongoose.model
    disconnects,            \* one record per adapter.disconnect() call
    closeCalls,             \* the calls made to <connection>.close, in order
    listeners,              \* handlers registered on mongoose.connection, in order
    log,                    \* the lines written to service.logger, by level
    calls,                  \* calls made on the adapter and events emitted so far
    okInits,                \* init calls that returned without throwing so far
    heap,                   \* plain records by reference (the transforms' entries)
    call,                   \* the last transform call: arguments, heap before, result
    entity,                 \* the entity handed to entityToObject
    toJSONCalls, toHexStringCalls, toStringCalls, \* calls made on the entity
    json                    \* what entityToObject returned

vars == <<uri, opts, mongoosePromise, broker, service, model, schema, modelName,
          db, op, connects, mongooseConnectCalls, mongooseModelCalls,
          disconnects, closeCalls, listeners, log, calls, okInits,
          heap, call, entity, toJSONCalls, toHexStringCalls, toStringCalls, json>>

lifecycleVars == <<uri, opts, mongoosePromise, broker, service, model, schema,
                   modelName, db, op, connects, mongooseConnectCalls,
                   mongooseModelCalls, disconnects, closeCalls, listeners, log,
                   calls, okInits>>
transformVars == <<heap, call>>
entityVars == <<entity, toJSONCalls, toHexStringCalls, toStringCalls, json>>

Undefined == "undefined"

\* JavaScript truthiness of the values the model uses for fields of a service
Truthy(v) == v \notin {Undefined, ""}

----------------------------------------------------------------------------
\* Bounds of the model

MaxCalls == 4        \* calls made on the adapter and events emitted in one behaviour

----------------------------------------------------------------------------
\* Inputs

URIs == {"mongodb://server"}
Options == {Undefined, "optsWithPromiseLibrary"}

\* service.schema of the services handed to init
Services == [model: {Undefined, "fakeModel"},
             schema: {Undefined, "fakeSchema"},
             modelName: {Undefined, "", "fakeModel"}]

\* outcomes of the underlying connection attempt
Causes == {"MongoNetworkError"}

ConnectionEvents == {"disconnected", "error", "reconnect"}

----------------------------------------------------------------------------
\* constructor(uri, opts)

PromiseLibraryOf(o) == IF o = "optsWithPromiseLibrary" THEN "promiseLibrary" ELSE "bluebird"

\* this.service before init has assigned it
NoService == [unassigned |-> TRUE]

NoCall == [fn |-> "none"]
NoEntity == [id |-> [kind |-> "none"]]
\* entityToObject has not returned yet
NoJson == [returned |-> FALSE]

LifecycleInit ==
    /\ uri \in URIs
    /\ opts \in Options
    /\ mongoosePromise = PromiseLibraryOf(opts)
    /\ broker = Undefined
    /\ service = NoService
    /\ model = Undefined
    /\ schema = Undefined
    /\ modelName = Undefined
    /\ db = Undefined
    /\ op = [name |-> "constructor"]
    /\ connects = <<>>
    /\ mongooseConnectCalls = <<>>
    /\ mongooseModelCalls = 0
    /\ disconnects = <<>>
    /\ closeCalls = <<>>
    /\ listeners = <<>>
    /\ log = [info |-> 0, warn |-> 0, error |-> 0]
    /\ calls = 0
    /\ okInits = 0

IdleTransforms == heap = <<>> /\ call = NoCall
IdleEntity ==
    /\ entity = NoEntity
    /\ toJSONCalls = 0 /\ toHexStringCalls = 0 /\ toStringCalls = 0
    /\ json = NoJson

Init == LifecycleInit /\ IdleTransforms /\ IdleEntity

----------------------------------------------------------------------------
\* init(broker, service)

\* A variant of InitFields that assigns schema and modelName before it
\* checks modelName.
InitSchemaFirst(m, s, n, svc) ==
    IF Truthy(svc.model)
    THEN [model |-> svc.model, schema |-> s, modelName |-> n, thrown |-> "none"]
    ELSE IF Truthy(svc.schema)
    THEN [model |-> m, schema |-> svc.schema, modelName |-> svc.modelName,
          thrown |-> IF ~Truthy(svc.modelName) THEN "ServiceSchemaError" ELSE "none"]
    ELSE [model |-> m, schema |-> s, modelName |-> n,
          thrown |-> IF ~Truthy(m) /\ ~Truthy(s) THEN "ServiceSchemaError" ELSE "none"]

\* The fields init leaves behind and whether it threw, from the fields it found
\* (m, s, n: this.model, this.schema, this.modelName) and service.schema (svc):
\* the modelName check comes before schema and modelName are assigned, and the
\* last check reads the adapter's fields.
InitFields(m, s, n, svc) ==
    IF Truthy(svc.model)
    THEN [model |-> svc.model, schema |-> s, modelName |-> n, thrown |-> "none"]
    ELSE IF Truthy(svc.schema)
    THEN IF ~Truthy(svc.modelName)
         THEN [model |-> m, schema |-> s, modelName |-> n, thrown |-> "ServiceSchemaError"]
         ELSE [model |-> m, schema |-> svc.schema, modelName |-> svc.modelName,
               thrown |-> "none"]
    ELSE [model |-> m, schema |-> s, modelName |-> n,
          thrown |-> IF ~Truthy(m) /\ ~Truthy(s) THEN "ServiceSchemaError" ELSE "none"]

\* this.broker and this.service are assigned before anything can throw
init(svc) ==
    /\ calls < MaxCalls
    /\ calls' = calls + 1
    /\ broker' = "broker"
    /\ service' = svc
    /\ LET r == InitFields(model, schema, modelName, svc) IN
        /\ model' = r.model
        /\ schema' = r.schema
        /\ modelName' = r.modelName
        /\ okInits' = IF r.thrown = "none" THEN okInits + 1 ELSE okInits
        /\ op' = [name |-> "init", thrown |-> r.thrown,
                  before |-> [model |-> model, schema |-> schema,
                              modelName |-> modelName, db |-> db,
                              connectCalls |-> Len(mongooseConnectCalls)]]
    /\ UNCHANGED <<uri, opts, mongoosePromise, db, connects, mongooseConnectCalls,
                   mongooseModelCalls, disconnects, closeCalls, listeners, log,
                   transformVars, entityVars>>

----------------------------------------------------------------------------
\* connect()

\* A variant of ConnectAttempts that makes a second attempt
ConnectRetrying(i, u, o) == <<[by |-> i, uri |-> u, opts |-> o], [by |-> i, uri |-> u, opts |-> o]>>

\* The calls connect() makes to mongoose.connect, for the adapter's i-th connect
ConnectAttempts(i, u, o) == <<[by |-> i, uri |-> u, opts |-> o]>>

\* A variant of DbAfterConnectCall that assigns the handle before the attempt
\* has completed
DbSetEagerly(d) == "mongoose.connection"

\* this.db when connect() returns: it is assigned in the callback only
DbAfterConnectCall(d) == d

\* connect() up to its return: the call to mongoose.connect and the future
\* derived from it by .then; the statement after the return is never reached.
connect ==
    /\ calls < MaxCalls
    /\ calls' = calls + 1
    /\ LET i == Len(connects) + 1 IN
        /\ mongooseConnectCalls' = mongooseConnectCalls \o ConnectAttempts(i, uri, opts)
        /\ connects' = Append(connects, [state |-> "pending", reason |-> Undefined,
                                         underlying |-> "pending",
                                         cause |-> Undefined,
                                         withService |-> service # NoService])
        /\ db' = DbAfterConnectCall(db)
        /\ op' = [name |-> "connect", call |-> i]
    /\ UNCHANGED <<uri, opts, mongoosePromise, broker, service, model, schema,
                   modelName, mongooseModelCalls, disconnects, closeCalls,
                   listeners, log,
                   okInits, transformVars, entityVars>>

\* this.db once the .then callback has run to its end
DbAfterThen(d) == "mongoose.connection"

\* A variant of ModelAfterConnect that constructs the model from a pending
\* schema
ModelFromSchema(m, s, n, c) ==
    IF Truthy(s) THEN [model |-> "modelOf_" \o s, modelCalls |-> c + 1]
    ELSE [model |-> m, modelCalls |-> c]

\* this.model and the calls made to mongoose.model once connect() is over:
\* mongoose.model(this.modelName, this.schema) follows the return statement
\* and is never executed.
ModelAfterConnect(m, s, n, c) == [model |-> m, modelCalls |-> c]

\* The state of the future connect() returned, once the callback has run
FutureAfterThen(threw) ==
    IF threw THEN [state |-> "rejected", reason |-> "TypeError"]
    ELSE [state |-> "resolved", reason |-> Undefined]

FutureAfterRejection(cause) == [state |-> "rejected", reason |-> cause]

\* mongoose.connect's promise resolves and the .then callback runs:
\* this.service.logger throws a TypeError when init was never called.
connectResolved(i) ==
    /\ i \in 1..Len(connects)
    /\ connects[i].underlying = "pending"
    /\ LET threw == service = NoService
           f == FutureAfterThen(threw) IN
        /\ connects' = [connects EXCEPT ![i].underlying = "resolved",
                                        ![i].state = f.state,
                                        ![i].reason = f.reason]
        /\ op' = [name |-> "connectResolved", call |-> i]
        /\ IF threw
           THEN UNCHANGED <<db, listeners, log, model, mongooseModelCalls>>
           ELSE /\ log' = [log EXCEPT !.info = @ + 1]
                /\ db' = DbAfterThen(db)
                /\ listeners' = listeners \o <<"disconnected", "error", "reconnect">>
                /\ LET r == ModelAfterConnect(model, schema, modelName,
                                              mongooseModelCalls) IN
                       model' = r.model /\ mongooseModelCalls' = r.modelCalls
    /\ UNCHANGED <<uri, opts, mongoosePromise, broker, service, schema, modelName,
                   mongooseConnectCalls, disconnects, closeCalls, calls,
                   okInits, transformVars, entityVars>>

\* mongoose.connect's promise rejects: the callback does not run and the
\* derived future rejects with the same cause.
connectRejected(i, cause) ==
    /\ i \in 1..Len(connects)
    /\ connects[i].underlying = "pending"
    /\ LET f == FutureAfterRejection(cause) IN
        connects' = [connects EXCEPT ![i].underlying = "rejected",
                                     ![i].cause = cause,
                                     ![i].state = f.state,
                                     ![i].reason = f.reason]
    /\ op' = [name |-> "connectRejected", call |-> i]
    /\ UNCHANGED <<uri, opts, mongoosePromise, broker, service, model, schema,
                   modelName, db, mongooseConnectCalls, mongooseModelCalls,
                   disconnects, closeCalls, listeners, log, calls,
                   okInits, transformVars, entityVars>>

\* The handlers registered by connect: each writes one line to the logger
LevelOf(ev) == CASE ev = "disconnected" -> "warn"
                 [] ev = "error" -> "error"
                 [] ev = "reconnect" -> "info"

connectionEmits(ev) ==
    /\ calls < MaxCalls
    /\ \E k \in 1..Len(listeners) : listeners[k] = ev
    /\ calls' = calls + 1
    /\ log' = [log EXCEPT ![LevelOf(ev)] =
                        @ + Cardinality({j \in 1..Len(listeners) : listeners[j] = ev})]
    /\ op' = [name |-> "connectionEmits", event |-> ev]
    /\ UNCHANGED <<uri, opts, mongoosePromise, broker, service, model, schema,
                   modelName, db, connects, mongooseConnectCalls, mongooseModelCalls,
                   disconnects, closeCalls, listeners,
                   okInits, transformVars, entityVars>>

----------------------------------------------------------------------------
\* disconnect()

\* this.db.close, the close capability of a held handle
HasClose(h) == h = "mongoose.connection"

\* The close calls the executor of disconnect()'s promise makes for call j
CloseRequests(j, d) ==
    IF Truthy(d) /\ HasClose(d)
    THEN <<[by |-> j, on |-> "this.db", done |-> FALSE]>>
    ELSE <<[by |-> j, on |-> "mongoose.connection", done |-> FALSE]>>

disconnect ==
    /\ calls < MaxCalls
    /\ calls' = calls + 1
    /\ LET j == Len(disconnects) + 1 IN
        /\ closeCalls' = closeCalls \o CloseRequests(j, db)
        /\ disconnects' = Append(disconnects, [state |-> "pending", heldHandle |-> Truthy(db) /\ HasClose(db)])
        /\ op' = [name |-> "disconnect", call |-> j]
    /\ UNCHANGED <<uri, opts, mongoosePromise, broker, service, model, schema,
                   modelName, db, connects, mongooseConnectCalls, mongooseModelCalls,
                   listeners, log,
                   okInits, transformVars, entityVars>>

\* A variant of FutureAfterClose that rejects when close reports an error
RejectOnError(err) == IF err = Undefined THEN "resolved" ELSE "rejected"

\* The state of disconnect()'s future after close called back with err:
\* the callback is resolve itself
FutureAfterClose(err) == "resolved"

\* close calls its callback, which is the promise's resolve
closeCallback(k, err) ==
    /\ k \in 1..Len(closeCalls)
    /\ ~closeCalls[k].done
    /\ closeCalls' = [closeCalls EXCEPT ![k].done = TRUE]
    /\ LET j == closeCalls[k].by IN
        disconnects' = [disconnects EXCEPT ![j].state =
                            IF @ = "pending" THEN FutureAfterClose(err) ELSE @]
    /\ op' = [name |-> "closeCallback", call |-> closeCalls[k].by]
    /\ UNCHANGED <<uri, opts, mongoosePromise, broker, service, model, schema,
                   modelName, db, connects, mongooseConnectCalls, mongooseModelCalls,
                   listeners, log, calls,
                   okInits, transformVars, entityVars>>

----------------------------------------------------------------------------
Next ==
    \/ \E svc \in Services : init(svc)
    \/ connect
    \/ \E i \in 1..MaxCalls : connectResolved(i)
    \/ \E i \in 1..MaxCalls, cause \in Causes : connectRejected(i, cause)
    \/ \E ev \in ConnectionEvents : connectionEmits(ev)
    \/ disconnect
    \/ \E k \in 1..MaxCalls, err \in {Undefined} \cup Causes : closeCallback(k, err)

Spec == Init /\ [][Next]_vars

----------------------------------------------------------------------------
\* Properties of init

ModelSet == Truthy(model)
PendingSchemaSet == Truthy(schema) /\ Truthy(modelName)

OnlyModel(svc) == Truthy(svc.model) /\ ~Truthy(svc.schema) /\ ~Truthy(svc.modelName)
SchemaWithoutName(svc) == ~Truthy(svc.model) /\ Truthy(svc.schema) /\ ~Truthy(svc.modelName)
NeitherModelNorSchema(svc) == ~Truthy(svc.model) /\ ~Truthy(svc.schema)

InitReturned == op.name = "init" /\ op.thrown = "none"

\* C1: once some init call has returned without throwing, whatever
\* was called before it, exactly one of model and the pair schema/modelName is
\* set; and an init that returned for a service declaring only model has set
\* model and left schema and modelName unset.
C1_AfterAnyInit ==
    /\ okInits >= 1 => ModelSet # PendingSchemaSet
    /\ InitReturned /\ OnlyModel(service) =>
           model = service.model /\ schema = Undefined /\ modelName = Undefined

\* The same holds between the first init call that returns without throwing
\* and the next one that does: init never clears what an earlier call set.
FirstInit_ExactlyOne ==
    /\ okInits = 1 => ModelSet # PendingSchemaSet
    /\ okInits = 1 /\ InitReturned /\ OnlyModel(service) =>
           model = service.model /\ schema = Undefined /\ modelName = Undefined

FirstInit_Reached ==
    /\ okInits = 1 /\ InitReturned /\ OnlyModel(service)
    /\ model = "fakeModel" /\ schema = Undefined
    /\ calls > 1

\* C2: an init call for a service declaring schema, no model and no modelName
\* throws ServiceSchemaError, and leaves schema, modelName, the connection
\* handle and the calls made to mongoose.connect as they were before the call.
C2_SchemaWithoutNameThrows ==
    op.name = "init" /\ SchemaWithoutName(service) =>
        /\ op.thrown = "ServiceSchemaError"
        /\ schema = op.before.schema
        /\ modelName = op.before.modelName
        /\ db = op.before.db
        /\ Len(mongooseConnectCalls) = op.before.connectCalls

C2_Witness ==
    /\ op.name = "init" /\ SchemaWithoutName(service)
    /\ op.thrown = "ServiceSchemaError"
    /\ schema = Undefined /\ modelName = Undefined /\ db = Undefined
    /\ mongooseConnectCalls = <<>>

\* C3: every init call for a service declaring neither model nor
\* schema throws ServiceSchemaError, whatever was called before it.
C3_NeitherAlwaysThrows ==
    op.name = "init" /\ NeitherModelNorSchema(service) =>
        op.thrown = "ServiceSchemaError"

\* What init does for such a service: it tests this.model and this.schema, so
\* it throws exactly when the adapter holds neither from an earlier call, and
\* otherwise returns and keeps them.
Neither_ThrowsUnlessHeld ==
    op.name = "init" /\ NeitherModelNorSchema(service) =>
        /\ op.thrown = "ServiceSchemaError"
              <=> (~Truthy(op.before.model) /\ ~Truthy(op.before.schema))
        /\ model = op.before.model
        /\ schema = op.before.schema
        /\ modelName = op.before.modelName

Neither_Reached ==
    /\ op.name = "init" /\ NeitherModelNorSchema(service)
    /\ op.thrown = "ServiceSchemaError"
    /\ okInits = 0

----------------------------------------------------------------------------
\* Properties of connect and disconnect

AttemptsOf(i) == {k \in 1..Len(mongooseConnectCalls) : mongooseConnectCalls[k].by = i}

\* C4: every connect() call makes exactly one call to mongoose.connect, with
\* this.uri and this.opts; when this.service was assigned before the call, the
\* returned future is resolved exactly when that attempt resolved, and rejected
\* exactly when it was rejected, with the attempt's cause as its reason.
C4_OneAttemptNoRetry ==
    \A i \in 1..Len(connects) :
        /\ Cardinality(AttemptsOf(i)) = 1
        /\ \A k \in AttemptsOf(i) :
               mongooseConnectCalls[k].uri = uri /\ mongooseConnectCalls[k].opts = opts
        /\ connects[i].withService =>
               /\ connects[i].state = "resolved" <=> connects[i].underlying = "resolved"
               /\ connects[i].state = "rejected" <=> connects[i].underlying = "rejected"
               /\ connects[i].state = "rejected" => connects[i].reason = connects[i].cause

C4_Witness ==
    /\ opts = Undefined
    /\ \E i \in 1..Len(connects) : connects[i].withService /\ connects[i].state = "resolved"
    /\ \E i \in 1..Len(connects) :
           /\ connects[i].withService /\ connects[i].state = "rejected"
           /\ connects[i].reason = "MongoNetworkError"

NoConnectSucceeded == \A i \in 1..Len(connects) : connects[i].state # "resolved"

\* C5: the connection handle is unset as long as no connect() future has
\* resolved, and once set no step outside disconnect unsets or replaces it.
C5_HandleUnsetUntilSuccess ==
    /\ [](NoConnectSucceeded => db = Undefined)
    /\ [][db # Undefined /\ op'.name \notin {"disconnect", "closeCallback"}
              => db' = db]_vars

C5_Witness ==
    /\ db = Undefined
    /\ okInits >= 1
    /\ \E i \in 1..Len(connects) : connects[i].state = "rejected"
    /\ \E j \in 1..Len(disconnects) : disconnects[j].state = "resolved"

ClosesOf(j) == {k \in 1..Len(closeCalls) : closeCalls[k].by = j}

\* C6: every disconnect() call requests exactly one close, on this.db when a
\* handle with close is held and on mongoose.connection otherwise; its future
\* is resolved exactly when that close has called back, and is never rejected.
C6_OneCloseNeverRejects ==
    \A j \in 1..Len(disconnects) :
        /\ Cardinality(ClosesOf(j)) = 1
        /\ \A k \in ClosesOf(j) :
               /\ closeCalls[k].on = IF disconnects[j].heldHandle
                                     THEN "this.db" ELSE "mongoose.connection"
               /\ disconnects[j].state = "resolved" <=> closeCalls[k].done
        /\ disconnects[j].state # "rejected"

C6_Witness ==
    /\ \E j \in 1..Len(disconnects) :
           disconnects[j].heldHandle /\ disconnects[j].state = "resolved"
    /\ \E j \in 1..Len(disconnects) :
           ~disconnects[j].heldHandle /\ disconnects[j].state = "resolved"

ConnectionSteps == {"connect", "connectResolved", "connectRejected",
                    "disconnect", "closeCallback", "connectionEmits"}

\* C10: mongoose.model is never called, and no step of connect or disconnect
\* (nor a connection event) changes this.model: after init with schema and
\* modelName, the model stays unset.
C10_ModelNeverConstructed ==
    /\ [](mongooseModelCalls = 0)
    /\ [][op'.name \in ConnectionSteps => model' = model]_vars

C10_Witness ==
    /\ op.name = "connectResolved"
    /\ Truthy(schema) /\ Truthy(modelName)
    /\ model = Undefined
    /\ db # Undefined
    /\ \E j \in 1..Len(disconnects) : disconnects[j].state = "resolved"

----------------------------------------------------------------------------
\* JavaScript values of identifiers and fields: a type tag and a printed form

Val(t, v) == [t |-> t, v |-> v]
VUndefined == Val("undefined", "")
VNull == Val("null", "")
Str(v) == Val("string", v)
Num(v) == Val("number", v)
ObjectId(hex) == Val("ObjectId", hex)          \* mongoose.Types.ObjectId
PlainObject == Val("object", "")               \* {}: inherits toString
BareObject == Val("bareObject", "")            \* Object.create(null)
Absent == Val("absent", "")                    \* the key is not in the record

HexA == "5f1d7f3e8b0c4a2d9c6e1a2b"
HexB == "0123456789abcdef01234567"

\* if (x): undefined, null, "" and 0 are falsy
JsTruthy(x) ==
    /\ x.t \notin {"undefined", "null"}
    /\ ~(x.t = "string" /\ x.v = "")
    /\ ~(x.t = "number" /\ x.v = "0")

\* x.toHexString and x.toString as properties that can be read and are truthy
HasToHexString(x) == x.t = "ObjectId"
HasToString(x) == x.t \in {"ObjectId", "string", "number", "object", "SchemaObjectId"}

JsToHexString(x) == Str(x.v)
JsToString(x) ==
    CASE x.t = "string" -> x
      [] x.t \in {"number", "ObjectId"} -> Str(x.v)
      [] OTHER -> Str("[object Object]")

\* mongoose.Types.ObjectId.isValid on a string
IsValid(v) == v \in {HexA, HexB}

\* stringToObjectID(id)
stringToObjectID(id) ==
    IF id.t = "string" /\ IsValid(id.v) THEN Val("SchemaObjectId", id.v) ELSE id

\* objectIDToString(id)
objectIDToString(id) ==
    IF JsTruthy(id) /\ HasToString(id) THEN JsToString(id) ELSE id

----------------------------------------------------------------------------
\* Plain records: a function from field names to values, Absent for a missing key

Fields == {"_id", "myID", "title"}
IdFields == {"_id", "myID", "title"}

IdValues == {Absent, VUndefined, Str(HexA), Str("123456789"), Str(""),
             Num("0"), Num("7"), ObjectId(HexB)}
TitleValues == {Absent, Str("My first post")}

Entries == {e \in [Fields -> IdValues \cup TitleValues] :
                /\ e["_id"] \in IdValues
                /\ e["myID"] \in IdValues
                /\ e["title"] \in TitleValues}

\* entity[f]
Get(e, f) == IF e[f] = Absent THEN VUndefined ELSE e[f]

\* A variant of beforeSaveTransformID that rewrites the entity itself
BeforeSaveInPlace(h, ref, idField) ==
    IF idField # "_id" /\ Get(h[ref], idField) # VUndefined
    THEN [heap |-> [h EXCEPT ![ref] =
                        [f \in Fields |->
                            IF f = idField THEN Absent
                            ELSE IF f = "_id" THEN stringToObjectID(Get(h[ref], idField))
                            ELSE h[ref][f]]],
          result |-> ref]
    ELSE [heap |-> h, result |-> ref]

\* beforeSaveTransformID(entity, idField): the heap h after the call and the
\* reference returned, entity being the record at reference ref
beforeSaveTransformID(h, ref, idField) ==
    IF idField # "_id" /\ Get(h[ref], idField) # VUndefined
    THEN LET assigned == h[ref]                       \* Object.assign({}, entity)
             withId == [assigned EXCEPT !["_id"] = stringToObjectID(Get(h[ref], idField))]
             newEntity == [withId EXCEPT ![idField] = Absent]
         IN  [heap |-> Append(h, newEntity), result |-> Len(h) + 1]
    ELSE [heap |-> h, result |-> ref]

\* A variant of afterRetrieveTransformID that returns a rewritten copy
AfterRetrieveCopying(h, ref, idField) ==
    IF idField # "_id"
    THEN LET withField == [h[ref] EXCEPT ![idField] = objectIDToString(Get(h[ref], "_id"))]
             deleted == [withField EXCEPT !["_id"] = Absent]
         IN  [heap |-> Append(h, deleted), result |-> Len(h) + 1]
    ELSE [heap |-> h, result |-> ref]

\* afterRetrieveTransformID(entity, idField): the entity is rewritten in place
afterRetrieveTransformID(h, ref, idField) ==
    IF idField # "_id"
    THEN LET withField == [h[ref] EXCEPT ![idField] = objectIDToString(Get(h[ref], "_id"))]
             deleted == [withField EXCEPT !["_id"] = Absent]
         IN  [heap |-> [h EXCEPT ![ref] = deleted], result |-> ref]
    ELSE [heap |-> h, result |-> ref]

TransformsInit ==
    /\ \E e \in Entries : heap = <<e>>
    /\ call = NoCall

callBeforeSave(idField) ==
    /\ call = NoCall
    /\ LET r == beforeSaveTransformID(heap, 1, idField) IN
        /\ heap' = r.heap
        /\ call' = [fn |-> "beforeSaveTransformID", entry |-> 1, idField |-> idField,
                    before |-> heap[1], result |-> r.result]
    /\ UNCHANGED <<lifecycleVars, entityVars>>

callAfterRetrieve(idField) ==
    /\ call = NoCall
    /\ LET r == afterRetrieveTransformID(heap, 1, idField) IN
        /\ heap' = r.heap
        /\ call' = [fn |-> "afterRetrieveTransformID", entry |-> 1, idField |-> idField,
                    before |-> heap[1], result |-> r.result]
    /\ UNCHANGED <<lifecycleVars, entityVars>>

TransformsNext ==
    \/ \E idField \in IdFields : callBeforeSave(idField)
    \/ \E idField \in IdFields : callAfterRetrieve(idField)

InitTransforms == LifecycleInit /\ TransformsInit /\ IdleEntity

SpecTransforms == InitTransforms /\ [][TransformsNext]_vars

----------------------------------------------------------------------------
\* entityToObject(entity)

EntityIds == {VUndefined, VNull, Str(""), Str("abc"), Num("0"), Num("7"),
              ObjectId(HexA), ObjectId(HexB), PlainObject, BareObject}

\* an entity: its _id, and the _id and title of what its toJSON returns
Entities == {e \in [id: EntityIds, jsonId: EntityIds \cup {Absent, Str("fromToJSON")},
                    title: TitleValues] :
                e.jsonId \in {e.id, Absent, Str("fromToJSON")}}

\* The record returned and the calls made on the entity and its _id
entityToObject(e) ==
    IF JsTruthy(e.id) /\ HasToHexString(e.id)
    THEN [json |-> [_id |-> JsToHexString(e.id), title |-> e.title],
          toJSON |-> 1, toHexString |-> 1, toString |-> 0]
    ELSE IF JsTruthy(e.id) /\ HasToString(e.id)
    THEN [json |-> [_id |-> JsToString(e.id), title |-> e.title],
          toJSON |-> 1, toHexString |-> 0, toString |-> 1]
    ELSE [json |-> [_id |-> e.jsonId, title |-> e.title],
          toJSON |-> 1, toHexString |-> 0, toString |-> 0]

EntityInit ==
    /\ entity \in Entities
    /\ toJSONCalls = 0 /\ toHexStringCalls = 0 /\ toStringCalls = 0
    /\ json = NoJson

callEntityToObject ==
    /\ json = NoJson
    /\ LET r == entityToObject(entity) IN
        /\ json' = r.json
        /\ toJSONCalls' = toJSONCalls + r.toJSON
        /\ toHexStringCalls' = toHexStringCalls + r.toHexString
        /\ toStringCalls' = toStringCalls + r.toString
    /\ UNCHANGED <<entity, lifecycleVars, transformVars>>

EntityNext == callEntityToObject

InitEntity == LifecycleInit /\ IdleTransforms /\ EntityInit

SpecEntity == InitEntity /\ [][EntityNext]_vars

----------------------------------------------------------------------------
\* Properties of the identifier transforms

Returned(fn) == call.fn = fn
Transforms(idField, value) == idField # "_id" /\ value # VUndefined

\* C7: beforeSaveTransformID leaves its entry as it was. When idField is not
\* "_id" and entry[idField] is defined, it returns another record, whose _id
\* is stringToObjectID(entry[idField]), which has no idField key and whose
\* other fields are the entry's; otherwise it returns the entry itself and
\* allocates nothing.
C7_BeforeSaveCopies ==
    Returned("beforeSaveTransformID") =>
        /\ heap[call.entry] = call.before
        /\ IF Transforms(call.idField, Get(call.before, call.idField))
           THEN /\ call.result # call.entry
                /\ heap[call.result]["_id"] =
                       stringToObjectID(Get(call.before, call.idField))
                /\ heap[call.result][call.idField] = Absent
                /\ \A f \in Fields \ {"_id", call.idField} :
                       heap[call.result][f] = call.before[f]
                /\ Get(heap[call.entry], call.idField) = Get(call.before, call.idField)
           ELSE /\ call.result = call.entry
                /\ Len(heap) = 1
                /\ heap[call.result]["_id"] = call.before["_id"]

C7_Witness ==
    /\ Returned("beforeSaveTransformID")
    /\ call.idField = "myID"
    /\ call.before["myID"] = Str(HexA)
    /\ call.before["_id"] = Absent
    /\ call.before["title"] # Absent
    /\ call.result = 2
    /\ heap[2]["_id"] = Val("SchemaObjectId", HexA)

\* C8: afterRetrieveTransformID returns the entry it was given and allocates
\* nothing. When idField is not "_id", afterwards entry[idField] is
\* objectIDToString of the former _id, the _id key is gone and the other
\* fields are as before; when idField is "_id" the entry is as before.
C8_AfterRetrieveInPlace ==
    Returned("afterRetrieveTransformID") =>
        /\ call.result = call.entry
        /\ Len(heap) = 1
        /\ IF call.idField # "_id"
           THEN /\ Get(heap[call.entry], call.idField) =
                       objectIDToString(Get(call.before, "_id"))
                /\ heap[call.entry]["_id"] = Absent
                /\ \A f \in Fields \ {"_id", call.idField} :
                       heap[call.entry][f] = call.before[f]
           ELSE heap[call.entry] = call.before

C8_Witness ==
    /\ Returned("afterRetrieveTransformID")
    /\ call.idField = "myID"
    /\ call.before["_id"] = ObjectId(HexB)
    /\ call.before["title"] # Absent
    /\ heap[1]["myID"] = Str(HexB)
    /\ heap[1]["_id"] = Absent

----------------------------------------------------------------------------
\* Properties of entityToObject

\* C9: entityToObject calls toJSON once; an identifier exposing
\* toHexString is converted by it, once, and toString is not called; else an
\* identifier exposing toString is converted by it, once; else the _id of the
\* result is the one toJSON produced.
C9_StrictPreference ==
    json # NoJson =>
        /\ toJSONCalls = 1
        /\ IF HasToHexString(entity.id)
           THEN /\ toHexStringCalls = 1 /\ toStringCalls = 0
                /\ json._id = JsToHexString(entity.id)
           ELSE IF HasToString(entity.id)
           THEN /\ toHexStringCalls = 0 /\ toStringCalls = 1
                /\ json._id = JsToString(entity.id)
           ELSE /\ toHexStringCalls = 0 /\ toStringCalls = 0
                /\ json._id = entity.jsonId

====
